---- MODULE Spec2Model ----
(***************************************************************************)
(* Model of lazyflow's OpExportMultipageTiff                                *)
(* (src/lazyflow/operators/ioOperators/opExportMultipageTiff.py).           *)
(*                                                                         *)
(* setupOutputs classifies the tagged shape of the input volume;           *)
(* run_export requests the volume slice by slice along the first           *)
(* non-singleton axis, keeps a deque of outstanding requests, waits for    *)
(* the head of the deque and appends the slice to the multipage file.      *)
(* The requests themselves complete (or fail) concurrently, in any order.  *)
(*                                                                         *)
(* Python values that may be absent (None, an unbound local) are modelled  *)
(* as sequences of length at most one: <<>> is "absent", <<v>> is v.       *)
(***************************************************************************)
EXTENDS Integers, Sequences, FiniteSets, TLC

\* ------------------------------------------------------------------ bounds
\* Largest extent of any axis of a four-axis input volume.
MaxExtent == 3
\* Largest extent of any axis of a five-axis input volume.
MaxWideExtent == 2
\* Largest ram_usage_per_requested_pixel hint (bytes per pixel), when present.
MaxCost == 2
\* psutil's available-memory readings are AvailStep, ..., MaxAvailSteps*AvailStep.
MaxAvailSteps == 2
AvailStep == 8

\* ------------------------------------------------------- program constants
DEFAULT_BATCH_SIZE == 4

VARIABLES
    pc,                \* position of the operator: setup / ready / fill / ... / done
    tagged_shape,      \* Input.meta.getTaggedShape(): [keys, extents]
    ram_hint,          \* Input.meta.ram_usage_per_requested_pixel (<<>> = None)
    available,         \* psutil.virtual_memory().available
    image_file,        \* the file at Filepath: <<>> = no file, <<pages>> = a file
    volume_axes,       \* self._volume_axes
    parallel_requests, \* local parallel_requests of run_export
    reqs,              \* the deque of requests (each request is its roi)
    fetch,             \* state of every issued request, by slice index
    issued,            \* history: the rois requested, in order of issue
    slice_index,       \* local slice_index (<<>> while unbound)
    req,               \* the request popped from the deque, <<>> when none
    progress,          \* history: the values emitted on progressSignal
    writes,            \* history: the pages handed to vigra.impex.writeImage
    error,             \* the exception that left the operator, "" when none
    early,             \* history: indices whose request finished (returned or
                       \* failed) while a request of a lower index was pending
    removed            \* history: run_export found a file at Filepath and removed it

vars == <<pc, tagged_shape, ram_hint, available, image_file, volume_axes,
          parallel_requests, reqs, fetch, issued, slice_index, req, progress,
          writes, error, early, removed>>

\* ------------------------------------------------------------- the inputs
\* Axis orders of the input slot.
KeyOrders == { <<"z", "c", "y", "x">>, <<"c", "z", "y", "x">> }
WideKeyOrders == { <<"t", "z", "y", "x", "c">> }

TaggedShapes ==
    UNION ( { { [keys |-> k, extents |-> e] : e \in [1..Len(k) -> 1..MaxExtent] }
              : k \in KeyOrders }
            \cup
            { { [keys |-> k, extents |-> e] : e \in [1..Len(k) -> 1..MaxWideExtent] }
              : k \in WideKeyOrders } )

CostHints == { <<>> } \cup { <<c>> : c \in 1..MaxCost }

AvailChoices == { k * AvailStep : k \in 1..MaxAvailSteps }

\* A file left at Filepath by an earlier run.
OldFile == << << [origin |-> "previous"] >> >>

\* --------------------------------------------------------------- helpers
RECURSIVE Prod(_)
Prod(s) == IF s = <<>> THEN 1 ELSE Head(s) * Prod(Tail(s))

Min(a, b) == IF a < b THEN a ELSE b

Range(s) == { s[i] : i \in 1..Len(s) }

\* Position of axis key a in the key sequence keys.
IndexOf(keys, a) == CHOOSE i \in 1..Len(keys) : keys[i] = a

\* tagged_shape[axis]
Extent(ts, a) == ts.extents[IndexOf(ts.keys, a)]


\* ------------------------------------------------------ setupOutputs code
\* A filter that keeps every axis of extent >= 1.
RECURSIVE positive_axes(_, _)
positive_axes(keys, extents) ==
    IF keys = <<>> THEN <<>>
    ELSE (IF Head(extents) >= 1 THEN << Head(keys) >> ELSE <<>>)
         \o positive_axes(Tail(keys), Tail(extents))

\* filter(lambda (k, v): v > 1, tagged_items), then the keys of what is left.
RECURSIVE filtered_axes(_, _)
filtered_axes(keys, extents) ==
    IF keys = <<>> THEN <<>>
    ELSE (IF Head(extents) > 1 THEN << Head(keys) >> ELSE <<>>)
         \o filtered_axes(Tail(keys), Tail(extents))

get_nonsingleton_axes_for_tagged_shape(ts) == filtered_axes(ts.keys, ts.extents)

\* The assertion of setupOutputs:
\* len(axes) == 3 or len(axes) == 4 and 'c' in axes[1:]
shape_check(axes) ==
    \/ Len(axes) = 3
    \/ Len(axes) = 4 /\ "c" \in Range(Tail(axes))

\* -------------------------------------------------------- run_export code
step_axis == volume_axes[1]

\* tagged_shape[step_axis]: the number of slices.
NumSlices == Extent(tagged_shape, step_axis)

\* tagged_sliceshape: the input shape with the step axis set to 1.
tagged_sliceshape(ts, axis) ==
    [keys |-> ts.keys,
     extents |-> [i \in 1..Len(ts.keys) |->
                     IF ts.keys[i] = axis THEN 1 ELSE ts.extents[i]]]

\* slice_step: all zeros except a 1 at the step axis.
slice_step(ts, axis) ==
    [i \in 1..Len(ts.keys) |-> IF ts.keys[i] = axis THEN 1 ELSE 0]

\* A request that omits roi += index*slice_step: always the first slice.
create_unshifted_req(index) ==
    LET shape == tagged_sliceshape(tagged_shape, step_axis).extents
    IN  [start |-> [i \in 1..Len(shape) |-> 0],
         stop  |-> [i \in 1..Len(shape) |-> shape[i]]]

\* create_slice_req: roiFromShape(slice_shape) + index*slice_step.
create_slice_req(index) ==
    LET shape == tagged_sliceshape(tagged_shape, step_axis).extents
        step  == slice_step(tagged_shape, step_axis)
    IN  [start |-> [i \in 1..Len(shape) |-> index * step[i]],
         stop  |-> [i \in 1..Len(shape) |-> shape[i] + index * step[i]]]

\* The slice index a request asks for: its offset along the step axis.
RoiIndex(roi) == roi.start[IndexOf(tagged_shape.keys, step_axis)]

\* Shape of the buffer req.wait() returns: that of the requested region.
RoiShape(roi) == [i \in 1..Len(roi.start) |-> roi.stop[i] - roi.start[i]]

\* A first batch that ignores parallel_requests and requests every slice.
whole_volume_batch(p, n) == n

\* min(parallel_requests, tagged_shape[step_axis]): size of the first batch.
initial_batch(p, n) == Min(p, n)

\* pixels_per_slice: numpy.prod(slice_shape), divided by the channel extent.
pixels_per_slice(sliceshape) ==
    LET p == Prod(sliceshape.extents)
    IN  IF "c" \in Range(sliceshape.keys)
        THEN p \div Extent(sliceshape, "c")
        ELSE p

\* The quotient written as a product: available_ram * 0.5 * ram_usage_per_slice.
ram_based_batch_product(avail, usage) == (avail * usage) \div 2

\* int(available_ram * 0.5 / ram_usage_per_slice): both operands are
\* non-negative, so truncation is the floor of avail / (2 * usage).
ram_based_batch_size(avail, usage) == avail \div (2 * usage)

\* The batch size with a missing hint read as one byte per pixel.
compute_without_default(hint, sliceshape, avail) ==
    ram_based_batch_size(avail, pixels_per_slice(sliceshape)
                                * (IF hint = <<>> THEN 1 ELSE hint[1]))

\* parallel_requests as computed by lines 77-92.
compute_parallel_requests(hint, sliceshape, avail) ==
    IF hint = <<>>
    THEN DEFAULT_BATCH_SIZE
    ELSE ram_based_batch_size(avail, pixels_per_slice(sliceshape) * hint[1])

\* A deque used as a stack: pop() takes the newest request.
pop_newest(q) == [item |-> q[Len(q)], rest |-> SubSeq(q, 1, Len(q) - 1)]

\* reqs.popleft(): the request returned, and the deque left behind.
popleft(q) == [item |-> Head(q), rest |-> Tail(q)]

\* A squeeze that drops nothing.
no_squeeze(shape) == shape

\* slice_data.squeeze(): drops every axis of extent 1.
squeeze(shape) ==
    LET keep(n) == n # 1 IN SelectSeq(shape, keep)

\* 100*slice_index / tagged_shape[step_axis], Python 2 integer division.
progress_value(index, n) == (100 * index) \div n

\* The percentage of the last slice in place of the closing 100.
last_slice_progress == progress_value(NumSlices - 1, NumSlices)

\* self.progressSignal(100), the closing emission.
final_progress == 100

\* vigra.impex.writeImage(..., mode='a'): creates the file or appends a page.
writeImage(file, page) ==
    IF file = <<>> THEN << << page >> >> ELSE << Append(file[1], page) >>

\* ---------------------------------------------------------------- Init
\* The operator is constructed and connected to an input slot; the file at
\* Filepath may or may not exist.  setupOutputs has not run yet.
Init ==
    /\ pc = "setup"
    /\ tagged_shape \in TaggedShapes
    /\ ram_hint \in CostHints
    /\ available \in AvailChoices
    /\ image_file \in { <<>>, OldFile }
    /\ volume_axes = <<>>
    /\ parallel_requests = 0
    /\ reqs = <<>>
    /\ fetch = <<>>
    /\ issued = <<>>
    /\ slice_index = <<>>
    /\ req = <<>>
    /\ progress = <<>>
    /\ writes = <<>>
    /\ error = ""
    /\ early = {}
    /\ removed = FALSE

\* ------------------------------------------------------------- actions
\* setupOutputs: classify the axes and check them.  zip(*[])[0] raises an
\* IndexError when no axis is left; the assert raises an AssertionError.
setupOutputs ==
    /\ pc = "setup"
    /\ LET axes == get_nonsingleton_axes_for_tagged_shape(tagged_shape)
       IN  IF axes = <<>>
           THEN /\ pc' = "failed"
                /\ error' = "IndexError"
                /\ UNCHANGED volume_axes
           ELSE /\ volume_axes' = axes
                /\ IF shape_check(axes)
                   THEN pc' = "ready" /\ UNCHANGED error
                   ELSE pc' = "failed" /\ error' = "AssertionError"
    /\ UNCHANGED <<tagged_shape, ram_hint, available, image_file,
                   parallel_requests, reqs, fetch, issued, slice_index, req,
                   progress, writes, early, removed>>

\* A start of run_export that leaves an existing file in place.
BeginExportKeepsFile ==
    /\ pc = "ready"
    /\ removed' = FALSE
    /\ parallel_requests' =
           compute_parallel_requests(ram_hint,
                                     tagged_sliceshape(tagged_shape, step_axis),
                                     available)
    /\ reqs' = <<>>
    /\ pc' = "fill"
    /\ UNCHANGED <<tagged_shape, ram_hint, available, image_file, volume_axes,
                   fetch, issued, slice_index, req, progress, writes, error, early>>

\* run_export, lines 54-95: delete the old file, size the batch, make the deque.
BeginExport ==
    /\ pc = "ready"
    /\ image_file' = <<>>
    /\ removed' = (image_file # <<>>)
    /\ parallel_requests' =
           compute_parallel_requests(ram_hint,
                                     tagged_sliceshape(tagged_shape, step_axis),
                                     available)
    /\ reqs' = <<>>
    /\ pc' = "fill"
    /\ UNCHANGED <<tagged_shape, ram_hint, available, volume_axes, fetch, issued,
                   slice_index, req, progress, writes, error, early>>

\* self.Input(*roi): a new request, outstanding from now on.
Issue(index) ==
    LET r == create_slice_req(index)
    IN  /\ reqs' = Append(reqs, r)
        /\ issued' = Append(issued, r)
        /\ fetch' = (RoiIndex(r) :> "pending") @@ fetch

\* One iteration of the for loop of lines 96-97.
FillIssue ==
    /\ pc = "fill"
    /\ Len(reqs) < initial_batch(parallel_requests, NumSlices)
    /\ slice_index' = << Len(reqs) >>
    /\ Issue(Len(reqs))
    /\ UNCHANGED <<pc, tagged_shape, ram_hint, available, image_file, volume_axes,
                   parallel_requests, req, progress, writes, error, early, removed>>

\* Progress 0 emitted, and the fill loop left, before the batch is complete.
FillEndBeforeBatch ==
    /\ pc = "fill"
    /\ progress' = Append(progress, 0)
    /\ pc' = "loop"
    /\ UNCHANGED <<tagged_shape, ram_hint, available, image_file, volume_axes,
                   parallel_requests, reqs, fetch, issued, slice_index, req,
                   writes, error, early, removed>>

\* The for loop ends; line 99 emits progress 0.
FillEnd ==
    /\ pc = "fill"
    /\ Len(reqs) >= initial_batch(parallel_requests, NumSlices)
    /\ progress' = Append(progress, 0)
    /\ pc' = "loop"
    /\ UNCHANGED <<tagged_shape, ram_hint, available, image_file, volume_axes,
                   parallel_requests, reqs, fetch, issued, slice_index, req,
                   writes, error, early, removed>>

\* Lines 100-102: the deque is not empty; emit progress and pop its head.
\* Reading an unbound slice_index would raise a NameError.
DrainHead ==
    /\ pc = "loop"
    /\ reqs # <<>>
    /\ IF slice_index = <<>>
       THEN /\ pc' = "failed"
            /\ error' = "NameError"
            /\ UNCHANGED <<progress, req, reqs>>
       ELSE /\ progress' = Append(progress, progress_value(slice_index[1], NumSlices))
            /\ req' = << popleft(reqs).item >>
            /\ reqs' = popleft(reqs).rest
            /\ pc' = "wait"
            /\ UNCHANGED error
    /\ UNCHANGED <<tagged_shape, ram_hint, available, image_file, volume_axes,
                   parallel_requests, fetch, issued, slice_index, writes, early, removed>>

\* A loop test that admits one index past the last slice.
more_slices_inclusive(index, n) == index <= n

\* Line 106: slice_index < tagged_shape[step_axis], the test before a refill.
more_slices(index, n) == index < n

\* A wait that returns the slice and counts it, but never refills the deque.
WaitReturnsNoRefill ==
    /\ pc = "wait"
    /\ fetch[RoiIndex(req[1])] = "done"
    /\ slice_index' = << slice_index[1] + 1 >>
    /\ pc' = "write"
    /\ UNCHANGED <<tagged_shape, ram_hint, available, image_file, volume_axes,
                   parallel_requests, reqs, fetch, issued, req, progress,
                   writes, error, early, removed>>

\* Lines 103-107: req.wait() returns the slice; count it and refill the deque.
WaitReturns ==
    /\ pc = "wait"
    /\ fetch[RoiIndex(req[1])] = "done"
    /\ slice_index' = << slice_index[1] + 1 >>
    /\ IF more_slices(slice_index[1] + 1, NumSlices)
       THEN Issue(slice_index[1] + 1)
       ELSE UNCHANGED <<reqs, issued, fetch>>
    /\ pc' = "write"
    /\ UNCHANGED <<tagged_shape, ram_hint, available, image_file, volume_axes,
                   parallel_requests, req, progress, writes, error, early, removed>>

\* A wait that swallows the error of a failed request and carries on.
WaitSwallows ==
    /\ pc = "wait"
    /\ fetch[RoiIndex(req[1])] = "failed"
    /\ slice_index' = << slice_index[1] + 1 >>
    /\ IF more_slices(slice_index[1] + 1, NumSlices)
       THEN Issue(slice_index[1] + 1)
       ELSE UNCHANGED <<reqs, issued, fetch>>
    /\ pc' = "write"
    /\ UNCHANGED <<tagged_shape, ram_hint, available, image_file, volume_axes,
                   parallel_requests, req, progress, writes, error, early, removed>>

\* Line 103: req.wait() raises the error of the failed request.
WaitRaises ==
    /\ pc = "wait"
    /\ fetch[RoiIndex(req[1])] = "failed"
    /\ pc' = "failed"
    /\ error' = "SourceFetchError"
    /\ UNCHANGED <<tagged_shape, ram_hint, available, image_file, volume_axes,
                   parallel_requests, reqs, fetch, issued, slice_index, req,
                   progress, writes, early, removed>>

\* Lines 109-114: squeeze, tag, check the dimensionality, append the page.
WriteSlice ==
    /\ pc = "write"
    /\ LET squeezed == squeeze(RoiShape(req[1]))
           page == [origin |-> "export", roi |-> req[1], shape |-> squeezed,
                    axes |-> Tail(volume_axes)]
       IN  IF Len(squeezed) = Len(volume_axes) - 1
           THEN /\ writes' = Append(writes, page)
                /\ image_file' = writeImage(image_file, page)
                /\ req' = <<>>
                /\ pc' = "loop"
                /\ UNCHANGED error
           ELSE /\ pc' = "failed"
                /\ error' = "AssertionError"
                /\ UNCHANGED <<writes, image_file, req>>
    /\ UNCHANGED <<tagged_shape, ram_hint, available, volume_axes,
                   parallel_requests, reqs, fetch, issued, slice_index, progress,
                   early, removed>>

\* Lines 100 and 116: the deque is empty; emit progress 100 and return.
Finish ==
    /\ pc = "loop"
    /\ reqs = <<>>
    /\ progress' = Append(progress, final_progress)
    /\ pc' = "done"
    /\ UNCHANGED <<tagged_shape, ram_hint, available, image_file, volume_axes,
                   parallel_requests, reqs, fetch, issued, slice_index, req,
                   writes, error, early, removed>>

\* Request i finishes while a request of a lower slice index is still pending.
Overtakes(i) == \E j \in DOMAIN fetch : j < i /\ fetch[j] = "pending"

\* The source finishes an outstanding request, at any time and in any order.
FetchCompletes(i) ==
    /\ pc \in {"fill", "loop", "wait", "write"}
    /\ fetch[i] = "pending"
    /\ fetch' = [fetch EXCEPT ![i] = "done"]
    /\ early' = IF Overtakes(i) THEN early \cup {i} ELSE early
    /\ UNCHANGED <<pc, tagged_shape, ram_hint, available, image_file, volume_axes,
                   parallel_requests, reqs, issued, slice_index, req, progress,
                   writes, error, removed>>

\* The source fails an outstanding request.
FetchFails(i) ==
    /\ pc \in {"fill", "loop", "wait", "write"}
    /\ fetch[i] = "pending"
    /\ fetch' = [fetch EXCEPT ![i] = "failed"]
    /\ early' = IF Overtakes(i) THEN early \cup {i} ELSE early
    /\ UNCHANGED <<pc, tagged_shape, ram_hint, available, image_file, volume_axes,
                   parallel_requests, reqs, issued, slice_index, req, progress,
                   writes, error, removed>>

Next ==
    \/ setupOutputs
    \/ BeginExport
    \/ FillIssue
    \/ FillEnd
    \/ DrainHead
    \/ WaitReturns
    \/ WaitRaises
    \/ WriteSlice
    \/ Finish
    \/ \E i \in DOMAIN fetch : FetchCompletes(i)
    \/ \E i \in DOMAIN fetch : FetchFails(i)

Spec == Init /\ [][Next]_vars

\* ======================================================================
\* Properties
\* ======================================================================
\* Position, in the key order, of the first axis of extent > 1.
FirstNonSingleton ==
    CHOOSE i \in 1..Len(tagged_shape.keys) :
        /\ tagged_shape.extents[i] > 1
        /\ \A j \in 1..(i - 1) : tagged_shape.extents[j] <= 1

\* The region of slice k: [k, k+1) along the first non-singleton axis, the
\* full extent along every other axis.
IsSliceRegion(roi, k) ==
    LET first == FirstNonSingleton
    IN  \A i \in 1..Len(tagged_shape.keys) :
            IF i = first
            THEN roi.start[i] = k /\ roi.stop[i] = k + 1
            ELSE roi.start[i] = 0 /\ roi.stop[i] = tagged_shape.extents[i]

\* run_export has sized its batch and is running, or has returned.
Running == pc \in {"fill", "loop", "wait", "write", "done"}

\* The pages of the file at Filepath.
FilePages == IF image_file = <<>> THEN <<>> ELSE image_file[1]

\* C1: whatever the order in which the requests complete, the k-th page
\* appended to the file is the slice of index k (counting from 0), so pages
\* are appended in strictly increasing slice-index order.
C1_PagesInSliceOrder ==
    /\ \A k \in 1..Len(writes) : IsSliceRegion(writes[k].roi, k - 1)
    /\ (Running \/ error = "SourceFetchError") => FilePages = writes

\* C1 witness: a finished export of at least three slices in which two
\* requests completed before a request of a lower index.
C1_Witness ==
    /\ pc = "done"
    /\ Len(writes) >= 3
    /\ Cardinality(early) >= 2

\* Requests issued and not yet consumed: those in the deque and the one
\* req.wait() is blocked on.
Outstanding == Len(reqs) + (IF pc = "wait" THEN 1 ELSE 0)

\* C2: the number of requests issued and not yet consumed never exceeds
\* parallel_requests, nor the number of slices.
C2_WindowBounded ==
    (Running \/ error = "SourceFetchError") =>
        /\ Outstanding <= parallel_requests
        /\ Outstanding <= NumSlices
        /\ Len(issued) - Len(writes) - (IF pc = "write" THEN 1 ELSE 0)
               <= Min(parallel_requests, NumSlices)

\* C2 witness: steady state, the deque refilled to the full window while
\* slices remain to be requested.
C2_Witness ==
    /\ pc = "write"
    /\ Len(issued) > parallel_requests
    /\ Len(reqs) = parallel_requests
    /\ parallel_requests >= 2
    /\ parallel_requests < NumSlices

\* C3: an export that returns normally has written every slice 0..N-1,
\* exactly once and in order, whatever the memory hint and reading.
C3_DoneWritesEverySlice ==
    pc = "done" =>
        /\ Len(writes) = NumSlices
        /\ \A k \in 1..Len(writes) : IsSliceRegion(writes[k].roi, k - 1)

\* The slice index of the request req.wait() was called on.
AwaitedIndex == req[1].start[FirstNonSingleton]

\* C4 (state part): when a failed request raises out of run_export it is the
\* awaited head request k; slices 0..k-1 and nothing else are in the file;
\* and while the request of index j has failed no page of index >= j exists.
C4_FailureState ==
    /\ error = "SourceFetchError" =>
           /\ pc = "failed"
           /\ fetch[AwaitedIndex] = "failed"
           /\ Len(writes) = AwaitedIndex
           /\ \A k \in 1..Len(writes) : IsSliceRegion(writes[k].roi, k - 1)
           /\ FilePages = writes
    /\ \A j \in DOMAIN fetch : fetch[j] = "failed" => Len(writes) <= j

\* C4 (step part): once the error has left run_export nothing more is
\* requested or written.
C4_FailureIsFinal ==
    error = "SourceFetchError" =>
        /\ writes' = writes
        /\ issued' = issued
        /\ image_file' = image_file
        /\ pc' = pc
        /\ error' = error

\* C4: a failed request surfaces only when it is awaited at the head of the
\* deque, with exactly the pages of the lower indices written, and the
\* export stops there.
C4_FetchFailureSurfacesAtHead ==
    [] C4_FailureState /\ [][C4_FailureIsFinal]_vars

\* C4 witness: request k >= 1 failed while a lower index was still pending,
\* and surfaced later with k pages written and other requests left behind.
C4_Witness ==
    /\ error = "SourceFetchError"
    /\ AwaitedIndex >= 1
    /\ AwaitedIndex \in early
    /\ Len(writes) = AwaitedIndex
    /\ reqs # <<>>

\* Pixels of one slice: every extent but that of the first non-singleton
\* axis and that of the channel axis.
SlicePixels ==
    Prod([i \in 1..Len(tagged_shape.keys) |->
             IF i = FirstNonSingleton \/ tagged_shape.keys[i] = "c"
             THEN 1 ELSE tagged_shape.extents[i]])

\* C5: with a hint, the window is half the available memory divided by the
\* bytes per slice, floored to at least 1.
C5_WindowAtLeastOne ==
    (Running /\ ram_hint # <<>>) =>
        /\ parallel_requests >= 1
        /\ LET q == available \div (2 * SlicePixels * ram_hint[1])
           IN  parallel_requests = IF q < 1 THEN 1 ELSE q

\* C6: without a hint the window is the default batch size, 4, whatever
\* the available memory, and the first batch is requested in full.
C6_DefaultWindowWithoutHint ==
    (Running /\ ram_hint = <<>>) =>
        /\ parallel_requests = 4
        /\ pc # "fill" => Len(issued) >= Min(4, NumSlices)

\* C6 witness: no hint, and available memory below the size of two slices
\* of one-byte pixels: the export still ran with a window of 4 and wrote
\* every slice.
C6_Witness ==
    /\ pc = "done"
    /\ ram_hint = <<>>
    /\ available < 2 * SlicePixels
    /\ parallel_requests = 4
    /\ Len(writes) = NumSlices

\* The window run_export would compute for another hint and memory reading.
WindowFor(hint, avail) ==
    compute_parallel_requests(hint, tagged_sliceshape(tagged_shape, step_axis), avail)

\* C7: with a hint, doubling the available memory never decreases the
\* window and doubling the per-pixel cost never increases it.
C7_WindowMonotone ==
    (Running /\ ram_hint # <<>>) =>
        /\ WindowFor(ram_hint, 2 * available) >= parallel_requests
        /\ WindowFor(<< 2 * ram_hint[1] >>, available) <= parallel_requests

\* C7 witness: a run whose window really grows with doubled memory and
\* shrinks with doubled cost.
C7_Witness ==
    /\ Running
    /\ ram_hint # <<>>
    /\ parallel_requests >= 1
    /\ WindowFor(ram_hint, 2 * available) > parallel_requests
    /\ WindowFor(<< 2 * ram_hint[1] >>, available) < parallel_requests

\* C8: the values emitted on progressSignal never decrease and lie in 0..100.
C8_ProgressMonotoneInRange ==
    \A i \in 1..Len(progress) :
        /\ progress[i] >= 0
        /\ progress[i] <= 100
        /\ i > 1 => progress[i - 1] <= progress[i]

\* C9: an export that returns normally emitted 0 first and 100 last; when
\* there was no slice to request the emissions are exactly 0, 100.
C9_ProgressFirstAndLast ==
    /\ progress # <<>> => progress[1] = 0
    /\ pc = "done" =>
           /\ Len(progress) >= 2
           /\ progress[Len(progress)] = 100
           /\ issued = <<>> => progress = << 0, 100 >>

\* C9 witness: a finished export of three slices, one emission per slice
\* between the opening 0 and the closing 100.
C9_Witness ==
    /\ pc = "done"
    /\ NumSlices >= 3
    /\ Len(writes) = NumSlices
    /\ Len(progress) = NumSlices + 2

\* Positions of the axes of extent > 1.
NonSingletonPositions ==
    { i \in 1..Len(tagged_shape.keys) : tagged_shape.extents[i] > 1 }

\* The positions of the axes of extent > 1, in increasing order.
NonSingletonOrder ==
    LET large(i) == tagged_shape.extents[i] > 1
    IN  SelectSeq([i \in 1..Len(tagged_shape.keys) |-> i], large)

\* Three non-singleton axes, or four of which the first is not the channel.
ThreeOrFourAxes ==
    \/ Cardinality(NonSingletonPositions) = 3
    \/ /\ Cardinality(NonSingletonPositions) = 4
       /\ tagged_shape.keys[FirstNonSingleton] # "c"

\* C10: for three (or four, channel not first) non-singleton axes the
\* classifier returns exactly those axes in their original order; every
\* request steps along the first of them and every page is tagged with the
\* others, in order.
C10_AxesClassified ==
    (pc # "setup" /\ ThreeOrFourAxes) =>
        LET nth    == NonSingletonOrder
            count  == Len(nth)
            slices == NumSlices
        IN  /\ Len(volume_axes) = count
            /\ \A a \in 1..Len(volume_axes) :
                   volume_axes[a] = tagged_shape.keys[nth[a]]
            /\ \A n \in 1..Len(issued) :
                   LET k == issued[n].start[nth[1]]
                   IN  k >= 0 /\ k < slices /\ IsSliceRegion(issued[n], k)
            /\ \A n \in 1..Len(writes) :
                   /\ Len(writes[n].axes) = count - 1
                   /\ \A a \in 1..Len(writes[n].axes) :
                          /\ writes[n].axes[a] = tagged_shape.keys[nth[a + 1]]
                          /\ writes[n].shape[a] = tagged_shape.extents[nth[a + 1]]

\* C10 witness: a five-axis volume whose first axis is a singleton: four
\* axes are left, the second axis of the volume is the step axis, and a
\* page was written.
C10_Witness ==
    /\ Len(writes) >= 1
    /\ tagged_shape.extents[1] = 1
    /\ Cardinality(NonSingletonPositions) = 4
    /\ volume_axes[1] = tagged_shape.keys[2]

\* A shape the export cannot page: fewer than three or more than four
\* non-singleton axes, or the channel axis first among them.
InvalidShape ==
    \/ Cardinality(NonSingletonPositions) \in {0, 1, 2}
    \/ Cardinality(NonSingletonPositions) >= 5
    \/ /\ NonSingletonPositions # {}
       /\ tagged_shape.keys[FirstNonSingleton] = "c"

\* C11: for an invalid shape setupOutputs fails with the shape error (the
\* assertion), and nothing is requested or written for it.
C11_InvalidShapeRejected ==
    (pc # "setup" /\ InvalidShape) =>
        /\ pc = "failed"
        /\ error = "AssertionError"
        /\ issued = <<>>
        /\ writes = <<>>

\* C12 (state part): once run_export has started, the file holds exactly
\* the pages this run has written: no file before the first write, and no
\* page of an earlier file at any time, also while requests are issued.
C12_OnlyThisRunsPages ==
    (Running \/ error = "SourceFetchError") =>
        /\ writes = <<>> => image_file = <<>>
        /\ Len(FilePages) = Len(writes)
        /\ \A k \in 1..Len(FilePages) :
               FilePages[k].origin = "export" /\ FilePages[k] = writes[k]

\* C12 (step part): the file changes only by the removal at the start of
\* run_export and by the append of one page at its end.
C12_GrowsByOnePage ==
    image_file' # image_file =>
        \/ pc = "ready" /\ image_file' = <<>>
        \/ /\ pc = "write"
           /\ Len(image_file'[1]) = Len(FilePages) + 1
           /\ SubSeq(image_file'[1], 1, Len(FilePages)) = FilePages

\* C12: a file found at Filepath is deleted before any request is issued
\* and any page appended; the file is created by the first append and grows
\* by exactly one page per append, holding nothing of the old file.
C12_OldFileDeletedFirst ==
    [] C12_OnlyThisRunsPages /\ [][C12_GrowsByOnePage]_vars

\* C12 witness: a file existed and was removed, and the finished export left
\* a file of two or more pages.
C12_Witness ==
    /\ removed
    /\ pc = "done"
    /\ Len(FilePages) >= 2
    /\ FilePages = writes

\* C13: the value emitted in a loop iteration is 100 * i / N (integer
\* division), i the index of the slice about to be consumed.
C13_ProgressOfConsumedIndex ==
    pc = "wait" =>
        progress[Len(progress)] = (100 * AwaitedIndex) \div NumSlices

\* The requests not yet written, oldest first: the request popped from the
\* deque and in hand (awaited, or returned and about to be written), then
\* the deque.
Unwritten == (IF pc \in {"wait", "write"} THEN req ELSE <<>>) \o reqs

C15_ZeroBeforeFirstFetch ==
    issued # <<>> => (progress # <<>> /\ progress[1] = 0)

\* C15 as amended: progress 0 is the first emission, made after the first
\* batch of min(parallel_requests, N) requests has been issued and before
\* any request is awaited or any page written.
C15_ZeroAfterFirstBatch ==
    /\ progress # <<>> =>
           /\ progress[1] = 0
           /\ Len(issued) >= Min(parallel_requests, NumSlices)
    /\ (Running /\ progress = <<>>) =>
           /\ pc = "fill"
           /\ req = <<>>
           /\ writes = <<>>

\* C15 witness: progress 0 has just been emitted, with two or more requests
\* already issued and none awaited yet.
C15_Witness ==
    /\ pc = "loop"
    /\ progress = << 0 >>
    /\ Len(issued) >= 2
    /\ req = <<>>

\* Number of requests issued when the current loop iteration began: the
\* first batch plus one per slice written so far.
IssuedAtIterationStart == Min(parallel_requests, NumSlices) + Len(writes)

\* C16: when a slice is about to be written, one request, for the next
\* unissued index, has been issued in this iteration if an index was still
\* unissued when the iteration began, and the deque again holds
\* min(parallel_requests, N) requests; otherwise nothing was issued.  Never
\* are more than N requests issued.
C16_OneInOneOut ==
    Running =>
        /\ Len(issued) <= NumSlices
        /\ pc = "write" =>
               IF IssuedAtIterationStart < NumSlices
               THEN /\ Len(issued) = IssuedAtIterationStart + 1
                    /\ IsSliceRegion(issued[Len(issued)], IssuedAtIterationStart)
                    /\ reqs[Len(reqs)] = issued[Len(issued)]
                    /\ Len(reqs) = Min(parallel_requests, NumSlices)
               ELSE /\ Len(issued) = NumSlices
                    /\ Len(reqs) = NumSlices - Len(writes) - 1

\* C16 witness: a slice after the first is about to be written, a request
\* was issued in this iteration and is in the deque.
C16_Witness ==
    /\ pc = "write"
    /\ Len(writes) >= 1
    /\ Len(issued) = IssuedAtIterationStart + 1
    /\ Len(reqs) >= 1

\* C16 witness of the tail: every index has been issued, so this iteration
\* issued nothing and the deque shrinks.
C16_TailWitness ==
    /\ pc = "write"
    /\ IssuedAtIterationStart >= NumSlices
    /\ Len(issued) = NumSlices
    /\ Len(reqs) = 1

\* C17: the n-th request issued is the one for slice index n-1, so indices
\* are issued in strictly increasing order without gap or repetition and
\* never reach N; a run with parallel_requests >= 1 that returns has issued
\* every index of 0..N-1.
C17_IssuedOnceInOrder ==
    (Running \/ error = "SourceFetchError") =>
        /\ Len(issued) <= NumSlices
        /\ \A n \in 1..Len(issued) : IsSliceRegion(issued[n], n - 1)
        /\ (pc = "done" /\ parallel_requests >= 1) => Len(issued) = NumSlices

\* C17 witness: a run has returned whose requests were issued partly by the
\* first batch and partly by the refills of the loop.
C17_Witness ==
    /\ pc = "done"
    /\ parallel_requests >= 1
    /\ parallel_requests < NumSlices
    /\ Len(issued) = NumSlices
    /\ NumSlices >= 3

\* Positions of the axes of extent > 1 other than the channel axis.
NonChannelPositions ==
    { i \in NonSingletonPositions : tagged_shape.keys[i] # "c" }

\* C18: every shape accepted by setupOutputs has exactly three axes of
\* extent > 1 other than 'c'.
C18_ThreeNonChannelAxes ==
    (pc = "ready" \/ Running) => Cardinality(NonChannelPositions) = 3

\* C19: the dimensionality assertion of run_export never fails: whenever a
\* slice is about to be written its squeezed buffer has
\* len(volume_axes) - 1 dimensions, every page written has that many, and
\* an AssertionError only ever comes from setupOutputs.
C19_DimensionalityHolds ==
    /\ error = "AssertionError" => (pc = "failed" /\ issued = <<>>)
    /\ pc = "write" =>
           Len(squeeze(RoiShape(req[1]))) = Len(volume_axes) - 1
    /\ \A n \in 1..Len(writes) :
           /\ Len(writes[n].shape) = Len(volume_axes) - 1
           /\ writes[n].shape = squeeze(RoiShape(writes[n].roi))

\* C19 witness: two pages are written of a volume one of whose axes is a
\* singleton, so the squeeze dropped that axis and the step axis.
C19_Witness ==
    /\ pc = "loop"
    /\ Len(writes) >= 2
    /\ Len(tagged_shape.keys) - Len(writes[2].shape) >= 2
    /\ Len(writes[2].shape) = Len(volume_axes) - 1

\* C20: a run that has returned went through exactly N loop iterations (one
\* progress value each, between the opening 0 and the closing 100), its
\* deque is empty, its last progress value is 100 and none of its requests
\* is still pending.
C20_DoneAfterNIterations ==
    pc = "done" =>
        /\ Len(progress) = NumSlices + 2
        /\ reqs = <<>>
        /\ progress[Len(progress)] = 100
        /\ \A i \in DOMAIN fetch : fetch[i] = "done"

====
